---------------------------- MODULE Spec2Model ----------------------------
(***************************************************************************)
(* routeCalc (src/main.py): a JSON-file-backed segment cache (RouteCache), *)
(* the cache-first segment resolution and route construction of            *)
(* WazeRouteCacheCalculator, and the backward walk of                      *)
(* Route.calculate_departure_times.                                        *)
(*                                                                         *)
(* Strings are sequences of one-character strings, so that str.lower and   *)
(* the key composition of get_cache_key act on their characters.  Python   *)
(* and JSON values are records [type, items], with Python's type names     *)
(* (dict, list, tuple) in memory and JSON's (object, array) in the file.   *)
(* Durations are whole minutes; a datetime is the number of minutes since  *)
(* today's midnight (negative: a previous day).                            *)
(***************************************************************************)
EXTENDS Integers, Sequences, FiniteSets, TLC

VARIABLES
    file,           \* the cache file on disk (self.cache_file)
    cache,          \* RouteCache.cache of the running process
    last,           \* the last RouteCache operation and what it returned
    stored,         \* history: the store_route calls that returned, in order
    route,          \* the Route under construction / last built
    stops,          \* the stops argument of build_route, as consumed so far
    current_location, \* build_route's loop variable
    calls,          \* history: the calculate_route_segment calls of this build
                    \* (of this behaviour where no route is built)
    departure_times, \* what calculate_departure_times returned
    pc,             \* position of get_departure_time: "idle", "building", "done";
                    \* "recalculated" after a further calculate_departure_times
    input,          \* the --stops argument and what parse_stops made of it
    peer            \* a second process on the same cache file: its
                    \* RouteCache.cache and its calculate_route_segment calls

vars == <<file, cache, last, stored, route, stops, current_location, calls,
          departure_times, pc, input, peer>>

cacheVars == <<file, cache, last, stored>>
routeVars == <<route, stops, current_location, calls, departure_times, pc>>
otherVars == <<input, peer>>

---------------------------------------------------------------------------
(* Bounds and input domains *)

MaxStores == 2      \* store_route calls per behaviour of the cache-level specs
MaxStops == 2       \* length of the stops argument of build_route

\* Location names given to store_route: two that differ in case only and one
\* that holds the key separator.  get_route is also asked for a name with a
\* trailing space.
CacheLocations == { <<"a">>, <<"A">>, <<"a", "|", "a">> }
LookupLocations == CacheLocations \cup { <<"a", " ">> }

\* (duration_minutes, distance_km) measurements given to store_route.
Measurements == { <<20, 25>>, <<15, 18>> }

\* Location names given to build_route.
RouteLocations == { <<"A">>, <<"B">>, <<"C">> }

\* Dwell minutes of a stop.
Dwells == { 0, 10 }

\* Arrival times, in minutes after midnight: 09:00 and 00:10.
ArrivalTimes == { 9 * 60, 10 }

---------------------------------------------------------------------------
(* Python and JSON values *)

PyNone == [type |-> "NoneType", items |-> <<>>]
PyTuple(items) == [type |-> "tuple", items |-> items]
PyList(items) == [type |-> "list", items |-> items]

Return(v) == [raised |-> FALSE, value |-> v]
Raise(exc) == [raised |-> TRUE, value |-> [type |-> exc, items |-> <<>>]]

NoEntries == [k \in {} |-> PyNone]

\* A cache document: what self.cache holds.  type is the document's own type;
\* has_routes says whether it has the key "routes"; routes_type and routes are
\* the type and the entries of cache["routes"].
Document(type, has_routes, routes_type, routes) ==
    [type |-> type, has_routes |-> has_routes, routes_type |-> routes_type,
     routes |-> routes]

\* {"routes": {}}
EmptyCache == Document("dict", TRUE, "dict", NoEntries)

\* json.dump: dict -> object, list and tuple -> array, number -> number.
JsonType(t) ==
    CASE t = "dict" -> "object"
      [] t = "list" -> "array"
      [] t = "tuple" -> "array"
      [] OTHER -> t

JsonDump(doc) ==
    [doc EXCEPT !.routes = [k \in DOMAIN doc.routes |->
        [type |-> JsonType(doc.routes[k].type), items |-> doc.routes[k].items]],
                !.type = JsonType(doc.type),
                !.routes_type = JsonType(doc.routes_type)]

\* json.load: object -> dict, array -> list, number -> number.
PyType(t) ==
    CASE t = "object" -> "dict"
      [] t = "array" -> "list"
      [] OTHER -> t

JsonLoad(doc) ==
    [doc EXCEPT !.routes = [k \in DOMAIN doc.routes |->
        [type |-> PyType(doc.routes[k].type), items |-> doc.routes[k].items]],
                !.type = PyType(doc.type),
                !.routes_type = PyType(doc.routes_type)]

\* The cache file: missing, present but unreadable or unparseable (which an
\* empty or half-written file is), or holding a JSON document.
FileMissing == [state |-> "missing", doc |-> JsonDump(EmptyCache)]
FileGarbage == [state |-> "garbage", doc |-> JsonDump(EmptyCache)]
FileJson(doc) == [state |-> "json", doc |-> doc]

---------------------------------------------------------------------------
(* RouteCache *)

\* str.lower on the characters the model uses.
LowerChar(c) ==
    CASE c = "A" -> "a"
      [] c = "B" -> "b"
      [] c = "C" -> "c"
      [] OTHER -> c

Lower(s) == [i \in 1..Len(s) |-> LowerChar(s[i])]

GetCacheKey(source, destination) ==
    Lower(source) \o <<"|">> \o Lower(destination)

\* load_cache answering an unparseable file with {} instead of {"routes": {}}.
LoadCacheBareDict(f) ==
    IF f.state = "json" THEN JsonLoad(f.doc)
    ELSE IF f.state = "garbage" THEN Document("dict", FALSE, "dict", NoEntries)
    ELSE EmptyCache

\* load_cache: the parsed document if the file exists and parses, and
\* {"routes": {}} otherwise.
LoadCache(f) ==
    IF f.state = "json" THEN JsonLoad(f.doc) ELSE EmptyCache

\* save_cache: open(cache_file, 'w') and json.dump(self.cache).
SaveCache(c) == FileJson(JsonDump(c))

\* What evaluating self.cache["routes"] does: nothing, or raise.
RoutesLookupError(c) ==
    IF c.type # "dict" THEN "TypeError"
    ELSE IF ~c.has_routes THEN "KeyError"
    ELSE "none"

\* get_route returning the stored entry as it is, without tuple().
GetRouteNoTuple(c, source, destination) ==
    LET cache_key == GetCacheKey(source, destination) IN
    IF RoutesLookupError(c) # "none" THEN Raise(RoutesLookupError(c))
    ELSE IF c.routes_type = "dict" /\ cache_key \in DOMAIN c.routes
         THEN Return(c.routes[cache_key])
         ELSE Return(PyNone)

\* get_route: tuple(cache["routes"][key]) if the key is in cache["routes"],
\* None otherwise.
GetRoute(c, source, destination) ==
    LET cache_key == GetCacheKey(source, destination) IN
    IF RoutesLookupError(c) # "none" THEN Raise(RoutesLookupError(c))
    ELSE IF c.routes_type = "dict" /\ cache_key \in DOMAIN c.routes
         THEN IF c.routes[cache_key].type \in {"list", "tuple"}
              THEN Return(PyTuple(c.routes[cache_key].items))
              ELSE Raise("TypeError")
         ELSE Return(PyNone)

\* self.cache["routes"][cache_key] = route_data (store_route, before the save).
SetEntry(c, source, destination, route_data) ==
    LET cache_key == GetCacheKey(source, destination) IN
    [c EXCEPT !.routes = [k \in DOMAIN c.routes \cup {cache_key} |->
                            IF k = cache_key THEN route_data ELSE c.routes[k]]]

\* What the assignment in store_route does: nothing, or raise.
StoreError(c) ==
    IF RoutesLookupError(c) # "none" THEN RoutesLookupError(c)
    ELSE IF c.routes_type # "dict" THEN "TypeError"
    ELSE "none"

\* store_route that sets the entry and does not call save_cache.
StoreRouteNoSave(c, f, source, destination, route_data) ==
    IF StoreError(c) # "none"
    THEN [cache |-> c, file |-> f, result |-> Raise(StoreError(c))]
    ELSE [cache |-> SetEntry(c, source, destination, route_data), file |-> f,
          result |-> Return(PyNone)]

\* store_route: set the entry, then save_cache.  Yields the new cache, the new
\* file and what the call returned.
StoreRoute(c, f, source, destination, route_data) ==
    IF StoreError(c) # "none"
    THEN [cache |-> c, file |-> f, result |-> Raise(StoreError(c))]
    ELSE LET updated == SetEntry(c, source, destination, route_data) IN
         [cache |-> updated, file |-> SaveCache(updated),
          result |-> Return(PyNone)]

---------------------------------------------------------------------------
(* The RouteCache operations as steps of one process after another *)

NoLocation == <<>>

LastOp(op, source, destination, result) ==
    [op |-> op, source |-> source, destination |-> destination,
     result |-> result]

NoRoute ==
    [source |-> NoLocation, destination |-> NoLocation, arrival_time |-> 0,
     segments |-> <<>>]

NoTimes == [l \in {} |-> 0]

\* No --stops argument was given, and no second process runs.
NoInput == [stops_str |-> <<>>, parsed |-> Return(PyList(<<>>))]
NoPeer == [running |-> FALSE, cache |-> PyNone, calls |-> <<>>]

\* Before get_departure_time is called.
BuildIdle ==
    /\ route = NoRoute
    /\ stops = <<>>
    /\ current_location = NoLocation
    /\ calls = <<>>
    /\ departure_times = NoTimes
    /\ pc = "idle"

RouteIdle ==
    /\ BuildIdle
    /\ input = NoInput
    /\ peer = NoPeer

\* RouteCache.__init__ on a file that is missing or unparseable.
CacheInit ==
    /\ file \in {FileMissing, FileGarbage}
    /\ cache = LoadCache(file)
    /\ last = LastOp("init", NoLocation, NoLocation, Return(PyNone))
    /\ stored = <<>>
    /\ RouteIdle

\* cache.store_route(source, destination, route_data)
CacheStore(source, destination, route_data) ==
    /\ Len(stored) < MaxStores
    /\ LET r == StoreRoute(cache, file, source, destination,
                           PyTuple(route_data)) IN
        /\ cache' = r.cache
        /\ file' = r.file
        /\ last' = LastOp("store", source, destination, r.result)
        /\ stored' = IF r.result.raised THEN stored
                     ELSE Append(stored, [source |-> source,
                                          destination |-> destination,
                                          route_data |-> route_data])
    /\ UNCHANGED <<routeVars, otherVars>>

\* cache.get_route(source, destination)
CacheGet(source, destination) ==
    /\ last' = LastOp("get", source, destination,
                      GetRoute(cache, source, destination))
    /\ UNCHANGED <<file, cache, stored>>
    /\ UNCHANGED <<routeVars, otherVars>>

\* The process ends and a new one constructs RouteCache on the same file.
NewInstance ==
    /\ last.op # "init"
    /\ cache' = LoadCache(file)
    /\ last' = LastOp("init", NoLocation, NoLocation, Return(PyNone))
    /\ UNCHANGED <<file, stored>>
    /\ UNCHANGED <<routeVars, otherVars>>

CacheNext ==
    \/ \E s \in CacheLocations, d \in CacheLocations, m \in Measurements :
          CacheStore(s, d, m)
    \/ \E s \in LookupLocations, d \in LookupLocations : CacheGet(s, d)
    \/ NewInstance

CacheSpec == CacheInit /\ [][CacheNext]_vars

\* RouteCache.__init__ on a file that exists and does not parse.
UnreadableInit ==
    /\ CacheInit
    /\ file = FileGarbage

UnreadableSpec == UnreadableInit /\ [][CacheNext]_vars

---------------------------------------------------------------------------
(* A crash inside store_route *)

\* Where the process can die inside store_route: after the in-memory
\* assignment and before save_cache opens the file; after open(.., 'w') has
\* truncated the file and before the document is completely on disk; after
\* the file is closed and before store_route returns.
CrashPoints == {"before_open", "after_open", "after_close"}

FileAfterCrash(c, f, point) ==
    CASE point = "before_open" -> f
      [] point = "after_open" -> FileGarbage
      [] point = "after_close" -> SaveCache(c)

\* store_route(source, destination, route_data) is cut short by the death of
\* the process; a new process then constructs RouteCache on the same file.
CrashInStore(source, destination, route_data, point) ==
    /\ Len(stored) < MaxStores
    /\ StoreError(cache) = "none"
    /\ file' = FileAfterCrash(SetEntry(cache, source, destination,
                                       PyTuple(route_data)), file, point)
    /\ cache' = LoadCache(file')
    /\ last' = LastOp("crash", source, destination, Return(PyNone))
    /\ UNCHANGED stored
    /\ UNCHANGED <<routeVars, otherVars>>

CrashNext ==
    \/ CacheNext
    \/ \E s \in CacheLocations, d \in CacheLocations, m \in Measurements,
          point \in CrashPoints : CrashInStore(s, d, m, point)

CrashSpec == CacheInit /\ [][CrashNext]_vars

---------------------------------------------------------------------------
(* A save_cache whose write fails *)

\* What happens inside save_cache: the document is written; open(.., 'w')
\* raises; open succeeds and json.dump raises before the document is
\* completely on disk.
SaveOutcomes == {"written", "open_raises", "dump_raises"}

\* Location names and measurements of the stores whose save may fail.
FaultLocations == { <<"a">>, <<"b">> }

\* save_cache under an outcome: the except clause prints the error and the
\* method returns; the file is the new document, untouched, or truncated.
SaveCacheOutcome(c, f, outcome) ==
    CASE outcome = "written" -> SaveCache(c)
      [] outcome = "open_raises" -> f
      [] outcome = "dump_raises" -> FileGarbage

\* store_route that takes the entry back and raises when the save failed.
StoreRouteUnwinding(c, f, source, destination, route_data, outcome) ==
    IF StoreError(c) # "none"
    THEN [cache |-> c, file |-> f, result |-> Raise(StoreError(c))]
    ELSE LET updated == SetEntry(c, source, destination, route_data) IN
         IF outcome = "written"
         THEN [cache |-> updated, file |-> SaveCache(updated),
               result |-> Return(PyNone)]
         ELSE [cache |-> c, file |-> SaveCacheOutcome(updated, f, outcome),
               result |-> Raise("OSError")]

\* store_route, with the outcome of its save_cache.
StoreRouteOutcome(c, f, source, destination, route_data, outcome) ==
    IF StoreError(c) # "none"
    THEN [cache |-> c, file |-> f, result |-> Raise(StoreError(c))]
    ELSE LET updated == SetEntry(c, source, destination, route_data) IN
         [cache |-> updated, file |-> SaveCacheOutcome(updated, f, outcome),
          result |-> Return(PyNone)]

\* cache.store_route(source, destination, route_data) with the outcome of its
\* save; the history notes whether the document was written.
FaultStore(source, destination, route_data, outcome) ==
    /\ Len(stored) < MaxStores
    /\ LET r == StoreRouteOutcome(cache, file, source, destination,
                                  PyTuple(route_data), outcome) IN
        /\ cache' = r.cache
        /\ file' = r.file
        /\ last' = LastOp("store", source, destination, r.result)
        /\ stored' = IF r.result.raised THEN stored
                     ELSE Append(stored, [source |-> source,
                                          destination |-> destination,
                                          route_data |-> route_data,
                                          saved |-> outcome = "written"])
    /\ UNCHANGED <<routeVars, otherVars>>

\* One process: stores whose save may fail, and lookups.
FaultNext ==
    \/ \E s \in FaultLocations, d \in FaultLocations, m \in Measurements,
          outcome \in SaveOutcomes : FaultStore(s, d, m, outcome)
    \/ \E s \in FaultLocations, d \in FaultLocations : CacheGet(s, d)

FaultSpec == CacheInit /\ [][FaultNext]_vars

---------------------------------------------------------------------------
(* A cache file that this program did not write *)

OneEntry(key, entry) == [k \in {key} |-> entry]

\* Valid JSON documents: {"routes": {}}, {}, [], {"routes": []},
\* {"routes": {"a|a": 5}}, {"routes": {"a|a": [20, 25]}}.
ForeignDocuments ==
    { Document("object", TRUE, "object", NoEntries),
      Document("object", FALSE, "object", NoEntries),
      Document("array", FALSE, "array", NoEntries),
      Document("object", TRUE, "array", NoEntries),
      Document("object", TRUE, "object",
               OneEntry(<<"a", "|", "a">>, [type |-> "number", items |-> <<5>>])),
      Document("object", TRUE, "object",
               OneEntry(<<"a", "|", "a">>, [type |-> "array", items |-> <<20, 25>>])) }

AnyFileInit ==
    /\ file \in {FileMissing, FileGarbage} \cup {FileJson(d) : d \in ForeignDocuments}
    /\ cache = LoadCache(file)
    /\ last = LastOp("init", NoLocation, NoLocation, Return(PyNone))
    /\ stored = <<>>
    /\ RouteIdle

AnyFileSpec == AnyFileInit /\ [][CacheNext]_vars

---------------------------------------------------------------------------
(* Claims about RouteCache *)

StoredKey(i) == GetCacheKey(stored[i].source, stored[i].destination)

\* A later store_route wrote the key of the i-th store.
OverwrittenLater(i) ==
    \E j \in (i + 1)..Len(stored) : StoredKey(j) = StoredKey(i)

LowerEqual(s1, d1, s2, d2) == Lower(s1) = Lower(s2) /\ Lower(d1) = Lower(d2)

\* C3: get_route(source, destination) returns the measurement of the latest
\* store_route on that pair unchanged, whatever stores on other keys came
\* after it, in the storing instance and in instances constructed later on
\* the same file.
C3_RoundTrip ==
    last.op = "get" =>
        \A i \in 1..Len(stored) :
            ( /\ stored[i].source = last.source
              /\ stored[i].destination = last.destination
              /\ ~OverwrittenLater(i) )
            => last.result = Return(PyTuple(stored[i].route_data))

\* C3 witness: a pair was stored, another key was stored after it, a new
\* instance loaded the file (its entries are JSON lists), and get_route on
\* the first pair returned the first measurement.
C3_Witness ==
    /\ last.op = "get"
    /\ Len(stored) = 2
    /\ stored[1].source = last.source
    /\ stored[1].destination = last.destination
    /\ StoredKey(2) # StoredKey(1)
    /\ cache.routes[StoredKey(1)].type = "list"
    /\ last.result = Return(PyTuple(stored[1].route_data))

\* C4: after a crash at any point of store_route and a reload, every pair
\* whose store_route returned before the crash is still found by get_route.
C4_CrashDurability ==
    \A i \in 1..Len(stored) :
        LET r == GetRoute(cache, stored[i].source, stored[i].destination) IN
        ~r.raised /\ r.value.type = "tuple"

\* C7: after one store_route(s1, d1, m) on an empty cache, get_route(s2, d2)
\* returns m if and only if s1, s2 and d1, d2 are equal after lower-casing.
C7_CaseOnly ==
    (last.op = "get" /\ Len(stored) = 1) =>
        ( last.result = Return(PyTuple(stored[1].route_data))
          <=> LowerEqual(stored[1].source, stored[1].destination,
                         last.source, last.destination) )

\* C8: for names A, B that differ after lower-casing, a step store_route(A, B, m)
\* leaves what get_route(B, A) returns unchanged.
C8_Directional ==
    [][ \A A \in CacheLocations, B \in CacheLocations :
          ( /\ Lower(A) # Lower(B)
            /\ stored' # stored
            /\ last'.op = "store" /\ last'.source = A /\ last'.destination = B )
          => GetRoute(cache', B, A) = GetRoute(cache, B, A) ]_vars

\* C10: get_route returns a (duration, distance) pair or None and never
\* raises, whatever the cache file held when the instance was constructed.
C10_LookupNeverFails ==
    last.op = "get" =>
        /\ ~last.result.raised
        /\ \/ last.result.value = PyNone
           \/ /\ last.result.value.type = "tuple"
              /\ Len(last.result.value.items) = 2

\* C11: a store_route whose save fails returns normally and keeps its entry
\* in memory: the cache of the process holds the measurement of the latest
\* store on every key, written to disk or not, and a get_route for the key
\* returns it.
C11_SaveFailureKeepsEntry ==
    /\ last.op = "store" => ~last.result.raised
    /\ \A i \in 1..Len(stored) :
          ~OverwrittenLater(i) =>
              /\ StoredKey(i) \in DOMAIN cache.routes
              /\ cache.routes[StoredKey(i)] = PyTuple(stored[i].route_data)
              /\ ( last.op = "get"
                   /\ GetCacheKey(last.source, last.destination) = StoredKey(i) )
                 => last.result = Return(PyTuple(stored[i].route_data))

\* C11 witness: a store whose save failed, a later store on another key whose
\* save failed too, and a get_route that returns the first measurement while
\* the file on disk holds no entry for its key.
C11_Witness ==
    /\ Len(stored) = 2
    /\ ~stored[1].saved /\ ~stored[2].saved
    /\ StoredKey(1) # StoredKey(2)
    /\ last.op = "get"
    /\ GetCacheKey(last.source, last.destination) = StoredKey(1)
    /\ last.result = Return(PyTuple(stored[1].route_data))
    /\ GetRoute(LoadCache(file), last.source, last.destination) = Return(PyNone)

---------------------------------------------------------------------------
(* Segment, Route *)

\* A Segment that keeps the default dwell of 0 whatever it is given.
SegmentDefaultDwell(source, destination, duration_minutes, distance_km, stop_duration_minutes) ==
    [source |-> source, destination |-> destination,
     duration_minutes |-> duration_minutes, distance_km |-> distance_km,
     stop_duration_minutes |-> 0]

Segment(source, destination, duration_minutes, distance_km, stop_duration_minutes) ==
    [source |-> source, destination |-> destination,
     duration_minutes |-> duration_minutes, distance_km |-> distance_km,
     stop_duration_minutes |-> stop_duration_minutes]

Route(source, destination, arrival_time) ==
    [source |-> source, destination |-> destination,
     arrival_time |-> arrival_time, segments |-> <<>>]

\* add_segment inserting at the front of the list.
AddSegmentFirst(r, segment) == [r EXCEPT !.segments = <<segment>> \o @]

AddSegment(r, segment) == [r EXCEPT !.segments = Append(@, segment)]

MinutesPerDay == 24 * 60

\* A time of day that stops at 00:00 instead of passing to the previous day.
TimeOfDayClamped(current_time) ==
    IF current_time < 0 THEN 0 ELSE current_time % MinutesPerDay

\* datetime.time(): the time of day of a datetime.
TimeOfDay(current_time) == current_time % MinutesPerDay

\* An assignment that leaves the entry of a location already in the map.
PutKeepFirst(times, location, time) ==
    [l \in DOMAIN times \cup {location} |->
        IF l \in DOMAIN times THEN times[l] ELSE time]

\* departure_times[location] = time
Put(times, location, time) ==
    [l \in DOMAIN times \cup {location} |->
        IF l = location THEN time ELSE times[l]]

\* The loop of calculate_departure_times over reversed(self.segments), from
\* segment k down to the first.
RECURSIVE WalkBack(_, _, _, _)
WalkBack(segments, k, current_time, times) ==
    IF k = 0 THEN times
    ELSE LET segment == segments[k]
             departed == current_time - segment.duration_minutes
             recorded == Put(times, segment.source, TimeOfDay(departed))
             before == IF segment.stop_duration_minutes > 0
                       THEN departed - segment.stop_duration_minutes
                       ELSE departed
         IN WalkBack(segments, k - 1, before, recorded)

\* A walk that leaves out the last segment.
CalculateDepartureTimesSkipLast(r) ==
    IF r.segments = <<>> THEN NoTimes
    ELSE WalkBack(r.segments, Len(r.segments) - 1, r.arrival_time, NoTimes)

CalculateDepartureTimes(r) ==
    IF r.segments = <<>> THEN NoTimes
    ELSE WalkBack(r.segments, Len(r.segments), r.arrival_time, NoTimes)

---------------------------------------------------------------------------
(* WazeAPI, WazeRouteCacheCalculator *)

\* WazeRouteCalculator(source, destination, region).calc_route_info() when
\* the provider answers: the pair's (minutes, km).
CalcRouteInfo(source, destination) ==
    IF source = <<"A">> /\ destination = <<"B">> THEN <<20, 25>> ELSE <<15, 18>>

\* get_route answering a failure with (-1, -1).
WazeGetRouteSentinel(source, destination, fails) ==
    IF fails THEN PyTuple(<<-1, -1>>)
    ELSE PyTuple(CalcRouteInfo(source, destination))

\* WazeAPI.get_route: the measurement, or (0, 0) when the call raised.
WazeGetRoute(source, destination, fails) ==
    IF fails THEN PyTuple(<<0, 0>>)
    ELSE PyTuple(CalcRouteInfo(source, destination))

\* calculate_route_segment taking a cached (0, 0) for a miss and asking the
\* oracle again.
CalculateRouteSegmentRetryFailed(c, f, source, destination, fails) ==
    LET route_data == GetRoute(c, source, destination).value IN
    IF route_data = PyNone \/ route_data = PyTuple(<<0, 0>>)
    THEN LET fetched == WazeGetRoute(source, destination, fails)
             r == StoreRoute(c, f, source, destination, fetched)
         IN [cache |-> r.cache, file |-> r.file, route_data |-> fetched,
             oracle_called |-> TRUE]
    ELSE [cache |-> c, file |-> f, route_data |-> route_data,
          oracle_called |-> FALSE]

\* calculate_route_segment asking the oracle without consulting the cache.
CalculateRouteSegmentNoCache(c, f, source, destination, fails) ==
    LET fetched == WazeGetRoute(source, destination, fails)
        r == StoreRoute(c, f, source, destination, fetched)
    IN [cache |-> r.cache, file |-> r.file, route_data |-> fetched,
        oracle_called |-> TRUE]

\* calculate_route_segment: the cache's answer, or on None the oracle's,
\* stored.  fails says whether the oracle's call raises if it is made.  Yields
\* the new cache and file, the returned route_data and whether the oracle was
\* called.
CalculateRouteSegment(c, f, source, destination, fails) ==
    LET route_data == GetRoute(c, source, destination).value IN
    IF route_data = PyNone
    THEN LET fetched == WazeGetRoute(source, destination, fails)
             r == StoreRoute(c, f, source, destination, fetched)
         IN [cache |-> r.cache, file |-> r.file, route_data |-> fetched,
             oracle_called |-> TRUE]
    ELSE [cache |-> c, file |-> f, route_data |-> route_data,
          oracle_called |-> FALSE]

\* History of one calculate_route_segment call: its arguments, whether the
\* cache held the key when it was made, whether it called the oracle and
\* whether that call failed, and what it returned.
Call(source, destination, had_entry, r, fails) ==
    [source |-> source, destination |-> destination, had_entry |-> had_entry,
     oracle_called |-> r.oracle_called,
     oracle_failed |-> r.oracle_called /\ fails,
     route_data |-> r.route_data]

HasEntry(c, source, destination) ==
    GetCacheKey(source, destination) \in DOMAIN c.routes

\* Cache files left by earlier runs of this program: none, a half-written
\* one, and one holding the entry of a resolved pair a -> b.
SeedFiles ==
    { FileMissing, FileGarbage,
      SaveCache(SetEntry(EmptyCache, <<"a">>, <<"b">>, PyTuple(<<20, 25>>))) }

Init ==
    /\ file \in SeedFiles
    /\ cache = LoadCache(file)
    /\ last = LastOp("init", NoLocation, NoLocation, Return(PyNone))
    /\ stored = <<>>
    /\ RouteIdle

\* get_departure_time -> build_route, up to the loop over stops.
BuildRouteBegin(source, destination, arrival_time) ==
    /\ pc = "idle"
    /\ route' = Route(source, destination, arrival_time)
    /\ current_location' = source
    /\ stops' = <<>>
    /\ calls' = <<>>
    /\ pc' = "building"
    /\ UNCHANGED <<departure_times, file, cache, last, stored, otherVars>>

\* One iteration of build_route's loop, for the next element of stops.
BuildRouteStop(next_location, stop_duration, fails) ==
    /\ pc = "building"
    /\ Len(stops) < MaxStops
    /\ LET r == CalculateRouteSegment(cache, file, current_location,
                                      next_location, fails)
           segment == Segment(current_location, next_location,
                              r.route_data.items[1], r.route_data.items[2],
                              stop_duration)
       IN /\ cache' = r.cache
          /\ file' = r.file
          /\ route' = AddSegment(route, segment)
          /\ calls' = Append(calls, Call(current_location, next_location,
                        HasEntry(cache, current_location, next_location),
                        r, fails))
    /\ stops' = Append(stops, <<next_location, stop_duration>>)
    /\ current_location' = next_location
    /\ UNCHANGED <<departure_times, pc, last, stored, otherVars>>

\* The end of stops: build_route's final segment, and get_departure_time's
\* call of calculate_departure_times on the route returned.
BuildRouteFinish(fails) ==
    /\ pc = "building"
    /\ LET r == CalculateRouteSegment(cache, file, current_location,
                                      route.destination, fails)
           final_segment == Segment(current_location, route.destination,
                              r.route_data.items[1], r.route_data.items[2], 0)
       IN /\ cache' = r.cache
          /\ file' = r.file
          /\ route' = AddSegment(route, final_segment)
          /\ calls' = Append(calls, Call(current_location, route.destination,
                        HasEntry(cache, current_location, route.destination),
                        r, fails))
          /\ departure_times' = CalculateDepartureTimes(route')
    /\ pc' = "done"
    /\ UNCHANGED <<stops, current_location, last, stored, otherVars>>

Next ==
    \/ \E s \in RouteLocations, d \in RouteLocations, t \in ArrivalTimes :
          BuildRouteBegin(s, d, t)
    \/ \E l \in RouteLocations, w \in Dwells, fails \in BOOLEAN :
          BuildRouteStop(l, w, fails)
    \/ \E fails \in BOOLEAN : BuildRouteFinish(fails)

Spec == Init /\ [][Next]_vars

---------------------------------------------------------------------------
(* calculate_departure_times called again on the route build_route returned *)

\* A walk that takes the segments off the route as it visits them.
CalculateDepartureTimesPopping(r) ==
    [route |-> [r EXCEPT !.segments = <<>>],
     departure_times |-> CalculateDepartureTimes(r)]

\* route.calculate_departure_times() as a method call: the route object after
\* the call, and the map returned.  The method assigns to locals only and
\* reads self.segments through reversed().
CalculateDepartureTimesCall(r) ==
    [route |-> r, departure_times |-> CalculateDepartureTimes(r)]

\* A further route.calculate_departure_times() on the route built.
Recalculate ==
    /\ pc \in {"done", "recalculated"}
    /\ LET r == CalculateDepartureTimesCall(route) IN
          /\ route' = r.route
          /\ departure_times' = r.departure_times
    /\ pc' = "recalculated"
    /\ UNCHANGED <<cacheVars, stops, current_location, calls, otherVars>>

RecalcNext ==
    \/ Next
    \/ Recalculate

RecalcSpec == Init /\ [][RecalcNext]_vars

---------------------------------------------------------------------------
(* Segment resolutions of one process after another *)

MaxCalls == 3       \* calculate_route_segment calls per behaviour

\* Location names resolved: two that differ in case only, and a third.
ResolveLocations == { <<"A">>, <<"a">>, <<"B">> }

\* calculator.calculate_route_segment(source, destination), as build_route
\* calls it for a hop of some route; calls is the history of all of them.
Resolve(source, destination, fails) ==
    /\ Len(calls) < MaxCalls
    /\ LET r == CalculateRouteSegment(cache, file, source, destination, fails)
       IN /\ cache' = r.cache
          /\ file' = r.file
          /\ calls' = Append(calls, Call(source, destination,
                        HasEntry(cache, source, destination), r, fails))
    /\ UNCHANGED <<last, stored, route, stops, current_location,
                   departure_times, pc, otherVars>>

\* The process ends and a new one constructs its calculator on the same file.
ProcessRestart ==
    /\ cache' = LoadCache(file)
    /\ UNCHANGED <<file, last, stored, routeVars, otherVars>>

ResolveNext ==
    \/ \E s \in ResolveLocations, d \in ResolveLocations, fails \in BOOLEAN :
          Resolve(s, d, fails)
    \/ ProcessRestart

ResolveSpec == Init /\ [][ResolveNext]_vars

---------------------------------------------------------------------------
(* Two processes on one cache file *)

MaxSharedCalls == 2     \* calculate_route_segment calls of each process

SharedLocations == { <<"A">>, <<"B">> }

\* A resolution by the first process.
SharedResolve(source, destination) ==
    /\ Len(calls) < MaxSharedCalls
    /\ Resolve(source, destination, FALSE)

\* A second process starts: its RouteCache loads the file as it is now.
PeerStart ==
    /\ ~peer.running
    /\ peer' = [running |-> TRUE, cache |-> LoadCache(file), calls |-> <<>>]
    /\ UNCHANGED <<cacheVars, routeVars, input>>

\* calculate_route_segment(source, destination) in the second process: its
\* own cache in memory, the same file.
PeerResolve(source, destination) ==
    /\ peer.running
    /\ Len(peer.calls) < MaxSharedCalls
    /\ LET r == CalculateRouteSegment(peer.cache, file, source, destination,
                                      FALSE)
       IN /\ file' = r.file
          /\ peer' = [peer EXCEPT
                        !.cache = r.cache,
                        !.calls = Append(@, Call(source, destination,
                                    HasEntry(peer.cache, source, destination),
                                    r, FALSE))]
    /\ UNCHANGED <<cache, last, stored, routeVars, input>>

SharedNext ==
    \/ \E s \in SharedLocations, d \in SharedLocations : SharedResolve(s, d)
    \/ PeerStart
    \/ \E s \in SharedLocations, d \in SharedLocations : PeerResolve(s, d)

SharedSpec == Init /\ [][SharedNext]_vars

---------------------------------------------------------------------------
(* InputParser.parse_stops, main *)

DigitChars == <<"0", "1", "2", "3", "4", "5", "6", "7", "8", "9">>

IsDigit(ch) == \E i \in 1..Len(DigitChars) : DigitChars[i] = ch

DigitValue(ch) == (CHOOSE i \in 1..Len(DigitChars) : DigitChars[i] = ch) - 1

RECURSIVE DecimalValue(_)
DecimalValue(digits) ==
    IF digits = <<>> THEN 0
    ELSE DecimalValue(SubSeq(digits, 1, Len(digits) - 1)) * Len(DigitChars)
            + DigitValue(digits[Len(digits)])

\* int(text) for a text without blanks or underscores: an optional sign and
\* one or more digits, ValueError otherwise.
PyInt(text) ==
    LET signed == text # <<>> /\ Head(text) \in {"-", "+"}
        digits == IF signed THEN Tail(text) ELSE text
    IN IF digits = <<>> \/ \E i \in 1..Len(digits) : ~IsDigit(digits[i])
       THEN Raise("ValueError")
       ELSE Return(IF signed /\ Head(text) = "-" THEN 0 - DecimalValue(digits)
                   ELSE DecimalValue(digits))

\* text.split(sep)
RECURSIVE Split(_, _)
Split(text, sep) ==
    IF \A i \in 1..Len(text) : text[i] # sep THEN <<text>>
    ELSE LET k == CHOOSE i \in 1..Len(text) :
                      text[i] = sep /\ \A j \in 1..(i - 1) : text[j] # sep
         IN <<SubSeq(text, 1, k - 1)>> \o Split(SubSeq(text, k + 1, Len(text)), sep)

EndsWith(text, ch) == text # <<>> /\ text[Len(text)] = ch

\* text[:-1]
DropLast(text) == SubSeq(text, 1, Len(text) - 1)

\* parse_stops on one duration_str: "Nh" is N * 60, "Nm" and "N" are N, and
\* what int() refuses is a ValueError.
ParseDuration(duration_str) ==
    IF EndsWith(duration_str, "h")
    THEN LET n == PyInt(DropLast(duration_str)) IN
         IF n.raised THEN n ELSE Return(n.value * 60)
    ELSE IF EndsWith(duration_str, "m") THEN PyInt(DropLast(duration_str))
    ELSE PyInt(duration_str)

\* InputParser.parse_stops: the list of (location, duration) pairs, or
\* ValueError.
ParseStops(stops_str) ==
    IF stops_str = <<>> THEN Return(PyList(<<>>))
    ELSE LET parts == Split(stops_str, ",") IN
         IF Len(parts) % 2 # 0 THEN Raise("ValueError")
         ELSE LET durations == [i \in 1..(Len(parts) \div 2) |->
                                   ParseDuration(parts[2 * i])]
              IN IF \E i \in DOMAIN durations : durations[i].raised
                 THEN Raise("ValueError")
                 ELSE Return(PyList([i \in DOMAIN durations |->
                                 <<parts[2 * i - 1], durations[i].value>>]))

\* --stops arguments: none, "B,10m", "B,1h", "B,5", "B,-10m", "B", "B,x",
\* "B,m", "B,10m,C,0" and "B,0,C,-10m".
StopStrings ==
    { <<>>,
      <<"B", ",", "1", "0", "m">>,
      <<"B", ",", "1", "h">>,
      <<"B", ",", "5">>,
      <<"B", ",", "-", "1", "0", "m">>,
      <<"B">>,
      <<"B", ",", "x">>,
      <<"B", ",", "m">>,
      <<"B", ",", "1", "0", "m", ",", "C", ",", "0">>,
      <<"B", ",", "0", ",", "C", ",", "-", "1", "0", "m">> }

\* main up to the construction of the calculator: the stops are parsed.
MainInit ==
    /\ file \in SeedFiles
    /\ cache = LoadCache(file)
    /\ last = LastOp("init", NoLocation, NoLocation, Return(PyNone))
    /\ stored = <<>>
    /\ BuildIdle
    /\ input \in { [stops_str |-> s, parsed |-> ParseStops(s)] : s \in StopStrings }
    /\ peer = NoPeer

\* main calls get_departure_time, unless parse_stops raised.
MainBegin(source, destination, arrival_time) ==
    /\ ~input.parsed.raised
    /\ BuildRouteBegin(source, destination, arrival_time)

\* build_route's loop takes the next parsed stop.
MainStop(fails) ==
    /\ ~input.parsed.raised
    /\ Len(stops) < Len(input.parsed.value.items)
    /\ LET stop == input.parsed.value.items[Len(stops) + 1] IN
          BuildRouteStop(stop[1], stop[2], fails)

\* build_route's loop is over.
MainFinish(fails) ==
    /\ ~input.parsed.raised
    /\ Len(stops) = Len(input.parsed.value.items)
    /\ BuildRouteFinish(fails)

MainNext ==
    \/ \E s \in RouteLocations, d \in RouteLocations, t \in ArrivalTimes :
          MainBegin(s, d, t)
    \/ \E fails \in BOOLEAN : MainStop(fails)
    \/ \E fails \in BOOLEAN : MainFinish(fails)

MainSpec == MainInit /\ [][MainNext]_vars


---------------------------------------------------------------------------
(* Claims about build_route and calculate_departure_times *)

RECURSIVE SumTravel(_)
SumTravel(segments) ==
    IF segments = <<>> THEN 0
    ELSE Head(segments).duration_minutes + SumTravel(Tail(segments))

RECURSIVE SumDwell(_)
SumDwell(stopList) ==
    IF stopList = <<>> THEN 0
    ELSE Head(stopList)[2] + SumDwell(Tail(stopList))

PositivePart(n) == IF n > 0 THEN n ELSE 0

\* The dwell the walk subtracts for the segments from the i-th on.
RECURSIVE SumPositiveDwell(_, _)
SumPositiveDwell(segments, i) ==
    IF i > Len(segments) THEN 0
    ELSE PositivePart(segments[i].stop_duration_minutes)
            + SumPositiveDwell(segments, i + 1)

NumSegments == Len(route.segments)

\* The time the walk writes under the source of the i-th segment when it
\* comes to it: the entry that segment gets in the map of the route that
\* starts with it.
RecordedAt(i) ==
    CalculateDepartureTimes(
        [route EXCEPT !.segments = SubSeq(route.segments, i, NumSegments)]
    )[route.segments[i].source]

\* What get_departure_time returns.
DepartureTime == departure_times[route.source]

\* C1: with one or more stops, the departure time at the origin is the arrival
\* time minus the travel of all segments minus the dwell of all stops, modulo
\* 24 h (A->B 20, dwell 10 at B, B->C 15, arrival 09:00: 08:15 at A).
C1_OriginDeparture ==
    (pc = "done" /\ Len(stops) >= 1) =>
        DepartureTime =
            (route.arrival_time - SumTravel(route.segments) - SumDwell(stops))
                % MinutesPerDay

\* C2: every calculate_route_segment call of the build called the oracle if
\* and only if the cache had no entry for the key, and what it returned is
\* what get_route returns for the pair afterwards, from the cache in memory
\* and from the cache file.
C2_CacheFirst ==
    \A i \in 1..Len(calls) :
        /\ calls[i].oracle_called <=> ~calls[i].had_entry
        /\ GetRoute(cache, calls[i].source, calls[i].destination)
              = Return(calls[i].route_data)
        /\ GetRoute(LoadCache(file), calls[i].source, calls[i].destination)
              = Return(calls[i].route_data)

\* C2 witness: a finished build in which one segment came from the cache and
\* another from the oracle.
C2_Witness ==
    /\ pc = "done"
    /\ \E i \in 1..Len(calls) : calls[i].had_entry /\ ~calls[i].oracle_called
    /\ \E i \in 1..Len(calls) : ~calls[i].had_entry /\ calls[i].oracle_called

\* The time at the destination node of the i-th segment: the arrival time
\* for the last segment, the time recorded for the next segment otherwise.
TimeAtDestination(i) ==
    IF i = NumSegments THEN route.arrival_time ELSE RecordedAt(i + 1)

\* The first parts of C5: the build finished with a segment for every stop
\* and the destination, and the segment of a failed oracle call measures (0, 0).
DegradedSegments ==
    /\ Len(calls) = Len(stops) + 1
    /\ NumSegments = Len(stops) + 1
    /\ route.source \in DOMAIN departure_times
    /\ \A i \in 1..NumSegments :
          calls[i].oracle_failed =>
              /\ route.segments[i].duration_minutes = 0
              /\ route.segments[i].distance_km = 0

C6_Contiguity ==
    pc = "done" =>
        /\ NumSegments = Len(stops) + 1
        /\ route.segments[1].source = route.source
        /\ \A i \in 1..(NumSegments - 1) :
              route.segments[i].destination = route.segments[i + 1].source
        /\ route.segments[NumSegments].destination = route.destination

\* C6 witness: a route of two stops whose three hops were served by the
\* cache, by the oracle and by the oracle's failure fallback.
C6_Witness ==
    /\ pc = "done"
    /\ Len(stops) = 2
    /\ \E h \in 1..3, o \in 1..3, x \in 1..3 :
          /\ calls[h].had_entry
          /\ calls[o].oracle_called /\ ~calls[o].oracle_failed
          /\ calls[x].oracle_failed

\* Everything the walk subtracted when it records the origin's time.
TotalSubtracted ==
    SumTravel(route.segments) + SumPositiveDwell(route.segments, 2)

\* C9: the departure time of day is (arrival - duration subtracted) modulo
\* 1440, and every time the walk records is a time of day.
C9_Rollover ==
    pc = "done" =>
        /\ DepartureTime = (route.arrival_time - TotalSubtracted) % MinutesPerDay
        /\ \A l \in DOMAIN departure_times :
              departure_times[l] \in 0..(MinutesPerDay - 1)

\* C9 witness: arrival 00:10 and 15 minutes to subtract: 23:55.
C9_Witness ==
    /\ pc = "done"
    /\ route.arrival_time = 10
    /\ TotalSubtracted = 15
    /\ DepartureTime = 23 * 60 + 55

\* The travel and dwell between the departure from the source of the i-th
\* segment and the arrival: the travel of the segments from the i-th on and
\* the positive dwell of the segments after it.
SubtractedFrom(i) ==
    SumTravel(SubSeq(route.segments, i, NumSegments))
        + SumPositiveDwell(route.segments, i + 1)

\* The time of day the walk computes for the i-th segment.
WalkTime(i) == (route.arrival_time - SubtractedFrom(i)) % MinutesPerDay

SegmentSources == { route.segments[i].source : i \in 1..NumSegments }

\* The first segment of the route that leaves from location l.
FirstFrom(l) ==
    CHOOSE i \in 1..NumSegments :
        /\ route.segments[i].source = l
        /\ \A j \in 1..(i - 1) : route.segments[j].source # l

\* C12: the keys of the departure map are the distinct segment sources, the
\* origin among them; a location that several segments leave from has the
\* time computed for the first of them, so the origin has the time of the
\* first segment; and the map has one entry per segment when all sources
\* differ.
C12_MapKeys ==
    pc = "done" =>
        /\ DOMAIN departure_times = SegmentSources
        /\ route.source \in DOMAIN departure_times
        /\ \A l \in SegmentSources :
              departure_times[l] = WalkTime(FirstFrom(l))
        /\ departure_times[route.source] = WalkTime(1)
        /\ Cardinality(SegmentSources) = NumSegments
              => Cardinality(DOMAIN departure_times) = NumSegments

\* C12 witness: a route of three segments that comes back to its origin and
\* leaves it again at another time: the map has two entries and the origin's
\* is the time of the first departure.
C12_Witness ==
    /\ pc = "done"
    /\ NumSegments = 3
    /\ route.segments[3].source = route.source
    /\ WalkTime(3) # WalkTime(1)
    /\ Cardinality(DOMAIN departure_times) = 2
    /\ departure_times[route.source] = WalkTime(1)

\* C13: every segment built from a stop string that parse_stops accepted has
\* travel, distance and dwell of zero or more: no dwell below zero passes
\* parse_stops and reaches a Segment.
C13_NonNegative ==
    \A i \in 1..NumSegments :
        /\ route.segments[i].duration_minutes >= 0
        /\ route.segments[i].distance_km >= 0
        /\ route.segments[i].stop_duration_minutes >= 0

\* C14: with no stops the built route is the one segment source ->
\* destination with dwell 0, resolved by one calculate_route_segment call,
\* and the departure time at the source is the arrival time minus that
\* segment's travel, modulo 24 h.
C14_ZeroStops ==
    (pc = "done" /\ stops = <<>>) =>
        /\ NumSegments = 1
        /\ route.segments[1].source = route.source
        /\ route.segments[1].destination = route.destination
        /\ route.segments[1].stop_duration_minutes = 0
        /\ Len(calls) = 1
        /\ calls[1].source = route.source
        /\ calls[1].destination = route.destination
        /\ route.segments[1].duration_minutes = calls[1].route_data.items[1]
        /\ route.source \in DOMAIN departure_times
        /\ DepartureTime =
              (route.arrival_time - route.segments[1].duration_minutes)
                  % MinutesPerDay

\* C14 witness: A -> B with no stops, 20 minutes from the oracle, arrival
\* 09:00: leave at 08:40.
C14_Witness ==
    /\ pc = "done"
    /\ stops = <<>>
    /\ calls[1].oracle_called /\ ~calls[1].oracle_failed
    /\ route.arrival_time = 9 * 60
    /\ route.segments[1].duration_minutes = 20
    /\ DepartureTime = 8 * 60 + 40

\* The dwell of the segments from the i-th on, as the stops gave it.
RECURSIVE SumSegmentDwell(_, _)
SumSegmentDwell(segments, i) ==
    IF i > Len(segments) THEN 0
    ELSE segments[i].stop_duration_minutes + SumSegmentDwell(segments, i + 1)

\* C15: the walk subtracts a segment's travel, records the time under the
\* segment's source and then subtracts the segment's dwell; hence the time
\* recorded for the i-th segment is the arrival time minus the travel of the
\* segments from the i-th on minus the dwell of the segments after the i-th,
\* modulo 24 h.
C15_WalkOrder ==
    pc = "done" =>
        \A i \in 1..NumSegments :
            RecordedAt(i) =
                (route.arrival_time
                    - SumTravel(SubSeq(route.segments, i, NumSegments))
                    - SumSegmentDwell(route.segments, i + 1)) % MinutesPerDay

CallKey(i) == GetCacheKey(calls[i].source, calls[i].destination)

\* C16: what a resolution returned stays the cache's value for its key, in
\* memory and in the file, the (0, 0) of a failed oracle call included; every
\* later resolution of the key, in the same process or in a later one,
\* returns it without calling the oracle; so the oracle is called at most
\* once per key.
C16_Sticky ==
    /\ \A i \in 1..Len(calls) :
          /\ CallKey(i) \in DOMAIN cache.routes
          /\ cache.routes[CallKey(i)].items = calls[i].route_data.items
          /\ GetRoute(LoadCache(file), calls[i].source, calls[i].destination)
                = Return(calls[i].route_data)
          /\ \A j \in (i + 1)..Len(calls) :
                CallKey(j) = CallKey(i) =>
                    /\ ~calls[j].oracle_called
                    /\ calls[j].route_data = calls[i].route_data
    /\ \A k \in { CallKey(i) : i \in 1..Len(calls) } :
          Cardinality({ i \in 1..Len(calls) :
                          CallKey(i) = k /\ calls[i].oracle_called }) <= 1

\* C16 witness: the oracle failed for a pair; a later process, which loaded
\* the entry from the file, resolves the pair under another spelling and gets
\* (0, 0) from the cache without calling the oracle.
C16_Witness ==
    /\ Len(calls) = 2
    /\ calls[1].oracle_failed
    /\ CallKey(2) = CallKey(1)
    /\ calls[2].source # calls[1].source
    /\ ~calls[2].oracle_called
    /\ calls[2].route_data = PyTuple(<<0, 0>>)
    /\ cache.routes[CallKey(1)].type = "list"

\* C17: the i-th segment ends at the i-th stop and carries its dwell; the
\* segments are resolved and appended in journey order, one per
\* calculate_route_segment call; the final segment, into the destination,
\* leaves from the last stop (the source when there is none) with dwell 0.
C17_DwellAttachment ==
    pc \in {"building", "done"} =>
        /\ NumSegments = Len(calls)
        /\ NumSegments = Len(stops) + (IF pc = "done" THEN 1 ELSE 0)
        /\ \A i \in 1..Len(stops) :
              /\ route.segments[i].destination = stops[i][1]
              /\ route.segments[i].stop_duration_minutes = stops[i][2]
        /\ \A i \in 1..NumSegments :
              /\ calls[i].source = route.segments[i].source
              /\ calls[i].destination = route.segments[i].destination
              /\ route.segments[i].source =
                    IF i = 1 THEN route.source ELSE stops[i - 1][1]
        /\ pc = "done" =>
              /\ route.segments[NumSegments].destination = route.destination
              /\ route.segments[NumSegments].stop_duration_minutes = 0

\* C17 witness: stops [(l_1, 0), (l_2, 10)]: the second segment, into l_2,
\* carries the 10 minutes and the third, out of l_2, carries none.
C17_Witness ==
    /\ pc = "done"
    /\ Len(stops) = 2
    /\ stops[1][2] = 0 /\ stops[2][2] = 10
    /\ route.segments[1].stop_duration_minutes = 0
    /\ route.segments[2].destination = stops[2][1]
    /\ route.segments[2].stop_duration_minutes = 10
    /\ route.segments[3].source = stops[2][1]
    /\ route.segments[3].stop_duration_minutes = 0

\* The file holds what the call returned, under the call's key.
InFile(call) ==
    GetRoute(LoadCache(file), call.source, call.destination)
        = Return(call.route_data)

\* The calls of a history that stored an entry.
Stores(history) == { i \in 1..Len(history) : history[i].oracle_called }

\* C18: as long as only one of the processes has written the file, the file
\* holds every entry that process stored; an entry can be missing from the
\* file only after both processes have written it (the witness is an
\* interleaving in which one is).
C18_SingleWriterKeepsAll ==
    /\ Stores(peer.calls) = {} => \A i \in Stores(calls) : InFile(calls[i])
    /\ Stores(calls) = {} => \A i \in Stores(peer.calls) : InFile(peer.calls[i])

\* C18 witness: both processes loaded the file, each then stored one pair,
\* under different keys, and the file holds the second process's entry and
\* no entry for the first's.
C18_Witness ==
    /\ Len(calls) = 1 /\ Len(peer.calls) = 1
    /\ calls[1].oracle_called /\ peer.calls[1].oracle_called
    /\ CallKey(1) # GetCacheKey(peer.calls[1].source, peer.calls[1].destination)
    /\ GetRoute(cache, calls[1].source, calls[1].destination)
          = Return(calls[1].route_data)
    /\ GetRoute(LoadCache(file), calls[1].source, calls[1].destination)
          = Return(PyNone)
    /\ InFile(peer.calls[1])

\* C19: while build_route runs, the route's source, destination and arrival
\* time stay and its segment list only grows at the end; once the route is
\* built, a calculate_departure_times call leaves the route, the cache, the
\* file and the history of oracle-backed resolutions as they are and returns
\* the map it returned before.
C19_RouteFrame ==
    [][ /\ pc = "building" =>
              /\ route'.source = route.source
              /\ route'.destination = route.destination
              /\ route'.arrival_time = route.arrival_time
              /\ Len(route'.segments) >= Len(route.segments)
              /\ SubSeq(route'.segments, 1, Len(route.segments)) = route.segments
        /\ pc \in {"done", "recalculated"} =>
              /\ route' = route
              /\ departure_times' = departure_times
              /\ cache' = cache
              /\ file' = file
              /\ calls' = calls ]_vars

\* C19 witness: calculate_departure_times was called again on a route of
\* three segments with a dwell, which is as build_route left it, and the map
\* is the one of three entries that the walk yields for it.
C19_Witness ==
    /\ pc = "recalculated"
    /\ NumSegments = 3
    /\ NumSegments = Len(stops) + 1
    /\ route.segments[1].stop_duration_minutes = 10
    /\ Cardinality(DOMAIN departure_times) = 3
    /\ departure_times = CalculateDepartureTimes(route)

====
